---- MODULE Spec2Model ----
(***************************************************************************)
(* The Streamable-HTTP session router of index.ts: the httpSessions map,   *)
(* the POST/GET/DELETE handlers of /mcp, the idle reaper and the graceful  *)
(* shutdown.  Every await of the handlers is a step boundary; the code     *)
(* between two awaits is one atomic step (single-threaded event loop).     *)
(* The MCP SDK transport is the environment: what handleRequest, connect   *)
(* and close do is a nondeterministic choice among returning, throwing and *)
(* invoking the callbacks the code passes to it.                           *)
(***************************************************************************)
EXTENDS Integers, Sequences, FiniteSets, Bags, TLC

\* ------------------------------------------------------------------ bounds
MaxCreate == 2
MaxInFlight == 2
MaxSlack == 1
CloseCap == 2
MaxSignals == 2

\* --------------------------------------------------------------- constants
MINUTE_MS == 60 * 1000
SESSION_TTL_MS == 30 * 60 * 1000
REAP_INTERVAL_MS == 5 * 60 * 1000
\* The instants at which the clock is read: the first MaxSlack minutes, and
\* the TTL after the last of them.
Instants ==
    {k * MINUTE_MS : k \in 0 .. MaxSlack}
        \cup {SESSION_TTL_MS + MaxSlack * MINUTE_MS}

SESSION_NOT_FOUND_CODE == -32001
MISSING_HEADER_CODE == -32000
INTERNAL_ERROR_CODE == -32603

\* Session identifiers are opaque strings; n >= 1 stands for the n-th distinct
\* UUID string, EmptyStr for '' and Null for null/undefined.
Null == -1
EmptyStr == 0
SessionIds == 1 .. MaxCreate
HeaderIds == 1 .. (MaxCreate + 1)
Objs == 1 .. MaxCreate
Methods == {"POST", "GET", "DELETE"}
Bodies == {"initialize", "rpc"}

\* The shapes req.headers['mcp-session-id'] can take: absent, a string, or an
\* array of strings.
HeaderValues ==
    {<<"absent">>}
        \cup {<<"str", v>> : v \in {EmptyStr} \cup HeaderIds}
        \cup {<<"arr", <<>>>>, <<"arr", <<EmptyStr>>>>, <<"arr", <<1, 2>>>>}

VARIABLES
    now,            \* Date.now()
    httpSessions,   \* the Map, as the sequence of its entries in insertion order
    nObj,           \* server/transport pairs constructed so far
    objs,           \* per pair: the transport's session id, closes initiated, handshake
    inflight,       \* the bag of suspended request handlers, each with its locals
    ev,             \* the response being written by the step just taken
    reapQ,          \* servers whose close the reaper's promise chain still has to call
    shuttingDown,   \* the flag of setupGracefulShutdown
    sd,             \* where the shutdown coroutine stands
    exitCode,       \* Null while the process runs, else the status of process.exit
    closed,         \* the session ids the reaper, onsessionclosed or shutdown closed
    lastReap,       \* when the callback of reapInterval last ran (0: not yet)
    ip              \* one call of ipAddressController.get: its inputs and position

vars == <<now, httpSessions, nObj, objs, inflight, ev, reapQ, shuttingDown, sd,
          exitCode, closed, lastReap, ip>>

\* --------------------------------------------------------- pure functions

\* JavaScript truthiness of a string-or-null.
Truthy(s) == s /= Null /\ s /= EmptyStr

getSessionId(raw) ==
    IF raw[1] = "arr"
    THEN (IF Len(raw[2]) > 0 THEN raw[2][1] ELSE Null)
    ELSE IF raw[1] = "str" /\ raw[2] /= EmptyStr
         THEN raw[2]
         ELSE Null

\* A body check that accepts every body.
isInitializeRequest_any(body) == TRUE
isInitializeRequest(body) == body = "initialize"

\* Map operations on the entry sequence.
Keys(m) == {m[i].id : i \in 1 .. Len(m)}
MapHas(m, k) == k \in Keys(m)
MapGet(m, k) == m[CHOOSE i \in 1 .. Len(m) : m[i].id = k]
MapDelete(m, k) == SelectSeq(m, LAMBDA e : e.id /= k)
MapSet(m, k, v) ==
    IF MapHas(m, k)
    THEN [i \in 1 .. Len(m) |-> IF m[i].id = k THEN v ELSE m[i]]
    ELSE Append(m, v)
MapClear(m) == <<>>

Entry(id, server, transport, lastActivity) ==
    [id |-> id, server |-> server, transport |-> transport,
     lastActivity |-> lastActivity]

\* An assignment that reaches every session of the map.
Touch_all(m, k, t) ==
    [i \in 1 .. Len(m) |-> [m[i] EXCEPT !.lastActivity = t]]

\* session.lastActivity = Date.now()
Touch(m, k, t) ==
    [i \in 1 .. Len(m) |->
        IF m[i].id = k THEN [m[i] EXCEPT !.lastActivity = t] ELSE m[i]]

\* ------------------------------------------------------------- responses
NoResponse == [status |-> 0, json |-> FALSE, code |-> 0, by |-> "none"]
JsonError(status, code) ==
    [status |-> status, json |-> TRUE, code |-> code, by |-> "router"]
TextError(status) ==
    [status |-> status, json |-> FALSE, code |-> 0, by |-> "router"]
SdkResponse == [status |-> 200, json |-> FALSE, code |-> 0, by |-> "sdk"]
\* A line written to the log by a catch handler instead of a response.
LogLine(message) == [status |-> 0, json |-> FALSE, code |-> 0, by |-> message]

\* A lookup miss answered as a bad request.
PostNotFound_as400 == JsonError(400, SESSION_NOT_FOUND_CODE)
PostNotFound == JsonError(404, SESSION_NOT_FOUND_CODE)
PostMissingHeader == JsonError(400, MISSING_HEADER_CODE)
PostInternalError == JsonError(500, INTERNAL_ERROR_CODE)
PlainMissingHeader == TextError(400)
PlainNotFound == TextError(404)
PlainInternalError == TextError(500)

\* if (!res.headersSent) { res.status(500)... }
ErrorUnlessSent(headersSent, response) ==
    IF headersSent THEN NoResponse ELSE response

\* ------------------------------------------------------------------ state
\* A suspended handler: where it awaits, the request's method, the session id
\* of its header, the pair whose transport it awaits, and its locals.
Handler(pc, method, sid, obj) ==
    [pc |-> pc, method |-> method, sid |-> sid, obj |-> obj,
     initializedSessionId |-> Null, headersSent |-> FALSE]
Suspend(bag, h) == bag (+) SetToBag({h})
Resume(bag, h) == bag (-) SetToBag({h})
Suspended == BagToSet(inflight)
NoObj == [sid |-> Null, tClose |-> 0, sClose |-> 0, hs |-> "none"]
SdIdle ==
    [pc |-> "running", server |-> 0, transport |-> 0, visited |-> {}, calls |-> 0]

\* An error a promise rejects with: whether it is an McpError, and its message
\* as the sequence of its parts.
NoError == [mcp |-> FALSE, message |-> <<"none">>]
\* ipAddressController.get not called.
IpIdle ==
    [pc |-> "idle", argUseHttps |-> "undefined", isTestEnvironment |-> FALSE,
     useHttps |-> FALSE, calls |-> <<>>, caught |-> NoError, error |-> NoError]

Init ==
    /\ now = 0
    /\ httpSessions = <<>>
    /\ nObj = 0
    /\ objs = [k \in Objs |-> NoObj]
    /\ inflight = EmptyBag
    /\ ev = NoResponse
    /\ reapQ = {}
    /\ shuttingDown = FALSE
    /\ sd = SdIdle
    /\ exitCode = Null
    /\ closed = {}
    /\ lastReap = 0
    /\ ip = IpIdle

\* The process runs and the previous step's response has been written.
Alive == exitCode = Null /\ ev = NoResponse

\* transport.close() / server.close() is called on pair k; the calls are
\* counted up to CloseCap.
CountUp(n) == IF n < CloseCap THEN n + 1 ELSE n
CloseTransport(o, k) == [o EXCEPT ![k].tClose = CountUp(@)]
CloseServer(o, k) == [o EXCEPT ![k].sClose = CountUp(@)]

\* ------------------------------------------------------- POST /mcp handler

\* A handler that stamps the session with the time the process started.
PostExisting_rewinds(sessionId) ==
    IF ~MapHas(httpSessions, sessionId)
    THEN /\ ev' = PostNotFound
         /\ UNCHANGED <<httpSessions, inflight>>
    ELSE /\ httpSessions' = Touch(httpSessions, sessionId, 0)
         /\ inflight' = Suspend(inflight,
                Handler("delegated", "POST", sessionId,
                        MapGet(httpSessions, sessionId).transport))
         /\ ev' = NoResponse

\* Lines 164-182: the request names a session.
PostExisting(sessionId) ==
    IF ~MapHas(httpSessions, sessionId)
    THEN /\ ev' = PostNotFound
         /\ UNCHANGED <<httpSessions, inflight>>
    ELSE /\ httpSessions' = Touch(httpSessions, sessionId, now)
         /\ inflight' = Suspend(inflight,
                Handler("delegated", "POST", sessionId,
                        MapGet(httpSessions, sessionId).transport))
         /\ ev' = NoResponse

\* Lines 197-236: construct the server/transport pair of a new session and
\* await sessionServer.connect(sessionTransport).
PostCreate ==
    /\ nObj < MaxCreate
    /\ nObj' = nObj + 1
    /\ objs' = [objs EXCEPT ![nObj + 1] = [NoObj EXCEPT !.hs = "pending"]]
    /\ inflight' = Suspend(inflight, Handler("connect", "POST", Null, nObj + 1))
    /\ ev' = NoResponse

\* A handler that looks at the body before it looks at the header.
Post_bodyFirst(raw, body) ==
    /\ Alive
    /\ BagCardinality(inflight) < MaxInFlight
    /\ LET sessionId == getSessionId(raw) IN
        IF isInitializeRequest(body) /\ nObj < MaxCreate
        THEN /\ PostCreate
             /\ UNCHANGED httpSessions
        ELSE IF Truthy(sessionId)
        THEN /\ PostExisting(sessionId)
             /\ UNCHANGED <<nObj, objs>>
        ELSE /\ ev' = PostMissingHeader
             /\ UNCHANGED <<httpSessions, inflight, nObj, objs>>
    /\ UNCHANGED <<lastReap, ip, now, reapQ, shuttingDown, sd, exitCode, closed>>

\* app.post(mcpEndpoint, ...) up to its first await.
Post(raw, body) ==
    /\ Alive
    /\ BagCardinality(inflight) < MaxInFlight
    /\ LET sessionId == getSessionId(raw) IN
        IF Truthy(sessionId)
        THEN /\ PostExisting(sessionId)
             /\ UNCHANGED <<nObj, objs>>
        ELSE IF ~isInitializeRequest(body)
        THEN /\ ev' = PostMissingHeader
             /\ UNCHANGED <<httpSessions, inflight, nObj, objs>>
        ELSE /\ PostCreate
             /\ UNCHANGED httpSessions
    /\ UNCHANGED <<lastReap, ip, now, reapQ, shuttingDown, sd, exitCode, closed>>

\* await sessionServer.connect(sessionTransport) resolves: line 239 calls
\* sessionTransport.handleRequest.
ConnectResolves(h) ==
    /\ Alive
    /\ h.pc = "connect"
    /\ inflight' = Suspend(Resume(inflight, h), [h EXCEPT !.pc = "init"])
    /\ ev' = NoResponse
    /\ UNCHANGED <<lastReap, ip, now, httpSessions, nObj, objs, reapQ, shuttingDown, sd,
                   exitCode, closed>>

\* connect rejects: line 236 is outside the inner try, so control goes to the
\* outer catch (lines 248-260) with nothing written to the response yet.
ConnectRejects(h) ==
    /\ Alive
    /\ h.pc = "connect"
    /\ inflight' = Resume(inflight, h)
    /\ objs' = [objs EXCEPT ![h.obj].hs = "failed"]
    /\ ev' = ErrorUnlessSent(FALSE, PostInternalError)
    /\ UNCHANGED <<lastReap, ip, now, httpSessions, nObj, reapQ, shuttingDown, sd, exitCode,
                   closed>>

\* A generator whose draws collide.
sessionIdGenerator_collides(k) == 1

\* sessionIdGenerator: () => randomUUID().  Distinct draws are distinct
\* strings; the draw of the k-th transport is the one named k.
sessionIdGenerator(k) == k

\* A callback that binds every session to the server constructed first.
onsessioninitialized_sharedServer(m, h, newSessionId, t) ==
    MapSet(m, newSessionId, Entry(newSessionId, 1, h.obj, t))

\* onsessioninitialized (lines 205-215): the map after the callback has run
\* for the handler h.
onsessioninitialized(m, h, newSessionId, t) ==
    MapSet(m, newSessionId, Entry(newSessionId, h.obj, h.obj, t))

\* The transport, handling the initialize request, generates its session id
\* and invokes onsessioninitialized; a transport does so once.
SdkSessionInitialized(h) ==
    /\ Alive
    /\ h.pc = "init"
    /\ objs[h.obj].sid = Null
    /\ LET newSessionId == sessionIdGenerator(h.obj) IN
        /\ objs' = [objs EXCEPT ![h.obj].sid = newSessionId]
        /\ httpSessions' = onsessioninitialized(httpSessions, h, newSessionId, now)
        /\ inflight' = Suspend(Resume(inflight, h),
                               [h EXCEPT !.initializedSessionId = newSessionId])
    /\ ev' = NoResponse
    /\ UNCHANGED <<lastReap, ip, now, nObj, reapQ, shuttingDown, sd, exitCode, closed>>

\* The delegated handleRequest of the initialize request returns; the
\* transport has written its response.
InitReturns(h) ==
    /\ Alive
    /\ h.pc = "init"
    /\ inflight' = Resume(inflight, h)
    /\ objs' = [objs EXCEPT ![h.obj].hs =
            IF h.initializedSessionId /= Null THEN "ok" ELSE "failed"]
    /\ ev' = SdkResponse
    /\ UNCHANGED <<lastReap, ip, now, httpSessions, nObj, reapQ, shuttingDown, sd, exitCode,
                   closed>>

\* A rollback that leaves the registered entry in the map.
RollbackDelete_keeps(m, initializedSessionId) == m

\* Lines 241-243: if (initializedSessionId) httpSessions.delete(...).
RollbackDelete(m, initializedSessionId) ==
    IF initializedSessionId /= Null
    THEN MapDelete(m, initializedSessionId)
    ELSE m

\* Lines 240-244: handleRequest throws; the entry is deleted when the callback
\* had registered one, and sessionTransport.close() is called and awaited.
InitThrows(h, headersSent) ==
    /\ Alive
    /\ h.pc = "init"
    /\ httpSessions' = RollbackDelete(httpSessions, h.initializedSessionId)
    /\ objs' = [CloseTransport(objs, h.obj) EXCEPT ![h.obj].hs = "failed"]
    /\ inflight' = Suspend(Resume(inflight, h),
            [h EXCEPT !.pc = "rollbackTransport", !.headersSent = headersSent])
    /\ ev' = NoResponse
    /\ UNCHANGED <<lastReap, ip, now, nObj, reapQ, shuttingDown, sd, exitCode, closed>>

\* await sessionTransport.close() resolves: line 245 calls sessionServer.close().
RollbackTransportClosed(h) ==
    /\ Alive
    /\ h.pc = "rollbackTransport"
    /\ objs' = CloseServer(objs, h.obj)
    /\ inflight' = Suspend(Resume(inflight, h), [h EXCEPT !.pc = "rollbackServer"])
    /\ ev' = NoResponse
    /\ UNCHANGED <<lastReap, ip, now, httpSessions, nObj, reapQ, shuttingDown, sd, exitCode,
                   closed>>

\* await sessionTransport.close() rejects: line 245 is skipped, outer catch.
RollbackTransportCloseRejects(h) ==
    /\ Alive
    /\ h.pc = "rollbackTransport"
    /\ inflight' = Resume(inflight, h)
    /\ ev' = ErrorUnlessSent(h.headersSent, PostInternalError)
    /\ UNCHANGED <<lastReap, ip, now, httpSessions, nObj, objs, reapQ, shuttingDown, sd,
                   exitCode, closed>>

\* await sessionServer.close() settles; either way an error reaches the outer
\* catch (the rethrown err of line 246, or the close's own rejection).
RollbackServerSettles(h) ==
    /\ Alive
    /\ h.pc = "rollbackServer"
    /\ inflight' = Resume(inflight, h)
    /\ ev' = ErrorUnlessSent(h.headersSent, PostInternalError)
    /\ UNCHANGED <<lastReap, ip, now, httpSessions, nObj, objs, reapQ, shuttingDown, sd,
                   exitCode, closed>>

\* -------------------------------------------- GET and DELETE /mcp handlers

\* Lines 264-278 and 288-302 up to the await: the two handlers are the same
\* code, and neither touches lastActivity.
Plain(method, raw) ==
    /\ Alive
    /\ BagCardinality(inflight) < MaxInFlight
    /\ LET sessionId == getSessionId(raw) IN
        IF ~Truthy(sessionId)
        THEN /\ ev' = PlainMissingHeader
             /\ UNCHANGED inflight
        ELSE IF ~MapHas(httpSessions, sessionId)
        THEN /\ ev' = PlainNotFound
             /\ UNCHANGED inflight
        ELSE /\ inflight' = Suspend(inflight,
                    Handler("delegated", method, sessionId,
                            MapGet(httpSessions, sessionId).transport))
             /\ ev' = NoResponse
    /\ UNCHANGED <<lastReap, ip, now, httpSessions, nObj, objs, reapQ, shuttingDown, sd,
                   exitCode, closed>>

Get(raw) == Plain("GET", raw)
Delete(raw) == Plain("DELETE", raw)

\* A termination callback that closes the server but keeps the entry.
onsessionclosed_keeps(m, o, rb, closedSessionId) ==
    IF ~MapHas(m, closedSessionId)
    THEN <<m, o, rb>>
    ELSE <<m, CloseServer(o, MapGet(m, closedSessionId).server), rb>>

\* onsessionclosed (lines 216-233): the map, the pairs and the closed ids
\* after the callback has run.
onsessionclosed(m, o, rb, closedSessionId) ==
    IF ~MapHas(m, closedSessionId)
    THEN <<m, o, rb>>
    ELSE <<MapDelete(m, closedSessionId),
           CloseServer(o, MapGet(m, closedSessionId).server),
           rb \cup {closedSessionId}>>

\* The transport handling a DELETE terminates its session: it invokes
\* onsessionclosed with its own session id, then closes itself.
SdkSessionClosed(h) ==
    /\ Alive
    /\ h.pc = "delegated"
    /\ h.method = "DELETE"
    /\ LET after == onsessionclosed(httpSessions, objs, closed,
                                    objs[h.obj].sid) IN
        /\ httpSessions' = after[1]
        /\ objs' = CloseTransport(after[2], h.obj)
        /\ closed' = after[3]
    /\ inflight' = Suspend(Resume(inflight, h), [h EXCEPT !.pc = "terminating"])
    /\ ev' = NoResponse
    /\ UNCHANGED <<lastReap, ip, now, nObj, reapQ, shuttingDown, sd, exitCode>>

\* await session.transport.handleRequest(...) of an existing session returns:
\* the transport has written the response.
DelegatedReturns(h) ==
    /\ Alive
    /\ h.pc \in {"delegated", "terminating"}
    /\ inflight' = Resume(inflight, h)
    /\ ev' = SdkResponse
    /\ UNCHANGED <<lastReap, ip, now, httpSessions, nObj, objs, reapQ, shuttingDown, sd,
                   exitCode, closed>>

\* The catch blocks of lines 248-260, 279-284 and 303-308.
CatchResponse(method, headersSent) ==
    ErrorUnlessSent(headersSent,
                    IF method = "POST" THEN PostInternalError
                    ELSE PlainInternalError)

\* A catch block that drops the session whose request failed.
DelegatedThrows_evicts(h, headersSent) ==
    /\ exitCode = Null /\ ev = NoResponse
    /\ h.pc \in {"delegated", "terminating"}
    /\ inflight' = Resume(inflight, h)
    /\ httpSessions' = MapDelete(httpSessions, h.sid)
    /\ ev' = CatchResponse(h.method, headersSent)
    /\ UNCHANGED <<lastReap, ip, now, nObj, objs, reapQ, shuttingDown, sd, exitCode, closed>>

\* await session.transport.handleRequest(...) of an existing session throws.
DelegatedThrows(h, headersSent) ==
    /\ Alive
    /\ h.pc \in {"delegated", "terminating"}
    /\ inflight' = Resume(inflight, h)
    /\ ev' = CatchResponse(h.method, headersSent)
    /\ UNCHANGED <<lastReap, ip, now, httpSessions, nObj, objs, reapQ, shuttingDown, sd,
                   exitCode, closed>>

\* The response of the step just taken has been written to the socket (or its
\* log line to the log).
ResponseWritten ==
    /\ ev /= NoResponse
    /\ ev' = NoResponse
    /\ UNCHANGED <<lastReap, ip, now, httpSessions, nObj, objs, inflight, reapQ, shuttingDown,
                   sd, exitCode, closed>>

\* ------------------------------------------------------------ idle reaper

\* A comparison that also evicts a session idle for exactly the TTL.
Expired_atTtl(session, t) == t - session.lastActivity >= SESSION_TTL_MS

\* now - session.lastActivity > SESSION_TTL_MS
Expired(session, t) == t - session.lastActivity > SESSION_TTL_MS

RECURSIVE CloseTransports(_, _)
CloseTransports(o, es) ==
    IF es = <<>> THEN o
    ELSE CloseTransports(CloseTransport(o, Head(es).transport), Tail(es))

\* A sweep that stops at the first session it evicts.
RECURSIVE ReapLoop_firstOnly(_, _, _, _, _)
ReapLoop_firstOnly(es, m, o, q, t) ==
    IF es = <<>> THEN <<m, o, q>>
    ELSE IF t - Head(es).lastActivity > SESSION_TTL_MS
         THEN <<MapDelete(m, Head(es).id),
                CloseTransport(o, Head(es).transport),
                q \cup {Head(es).server}>>
         ELSE ReapLoop_firstOnly(Tail(es), m, o, q, t)

\* The for-of loop of lines 336-356 over the entries es: the map, the pairs
\* and the set of servers whose close is still to be called by the promise
\* chains, after the loop.
RECURSIVE ReapLoop(_, _, _, _, _)
ReapLoop(es, m, o, q, t) ==
    IF es = <<>> THEN <<m, o, q>>
    ELSE IF Expired(Head(es), t)
         THEN ReapLoop(Tail(es), MapDelete(m, Head(es).id),
                       CloseTransport(o, Head(es).transport),
                       q \cup {Head(es).server}, t)
         ELSE ReapLoop(Tail(es), m, o, q, t)

\* A sweep that also drops the suspended handlers of the sessions it evicts.
Reap_cancels ==
    /\ exitCode = Null /\ ev = NoResponse
    /\ LET after == ReapLoop(httpSessions, httpSessions, objs, reapQ, now) IN
        /\ httpSessions' = after[1]
        /\ objs' = after[2]
        /\ reapQ' = after[3]
        /\ closed' = closed \cup (Keys(httpSessions) \ Keys(after[1]))
        /\ inflight' =
            [h \in {g \in DOMAIN inflight :
                        g.sid \notin Keys(httpSessions) \ Keys(after[1])}
                |-> inflight[h]]
    /\ ev' = NoResponse
    /\ UNCHANGED <<lastReap, ip, now, nObj, shuttingDown, sd, exitCode>>

\* The callback of reapInterval (lines 335-356); it is synchronous.
ReapCallback ==
    /\ Alive
    /\ LET after == ReapLoop(httpSessions, httpSessions, objs, reapQ, now) IN
        /\ httpSessions' = after[1]
        /\ objs' = after[2]
        /\ reapQ' = after[3]
        /\ closed' = closed \cup (Keys(httpSessions) \ Keys(after[1]))
    /\ ev' = NoResponse
    /\ UNCHANGED <<ip, now, nObj, inflight, shuttingDown, sd, exitCode>>

\* One tick of reapInterval (lines 334-357), at whatever time it comes.
Reap ==
    /\ ReapCallback
    /\ UNCHANGED lastReap

\* A promise chain that stops at a rejected transport close.
ReapServerClose_escalates(k, rejected) ==
    /\ exitCode = Null /\ ev = NoResponse
    /\ k \in reapQ
    /\ reapQ' = reapQ \ {k}
    /\ objs' = IF rejected THEN objs ELSE CloseServer(objs, k)
    /\ ev' = IF rejected THEN LogLine("Error closing transport for reaped session")
             ELSE NoResponse
    /\ UNCHANGED <<lastReap, ip, now, httpSessions, nObj, inflight, shuttingDown, sd, exitCode,
                   closed>>

\* The transport close of a reaped session settles (lines 340-348): a
\* rejection is logged by the .catch of line 342, and in both cases the .then
\* of line 348 calls session.server.close().
ReapServerClose(k, rejected) ==
    /\ Alive
    /\ k \in reapQ
    /\ reapQ' = reapQ \ {k}
    /\ objs' = CloseServer(objs, k)
    /\ ev' = IF rejected THEN LogLine("Error closing transport for reaped session")
             ELSE NoResponse
    /\ UNCHANGED <<lastReap, ip, now, httpSessions, nObj, inflight, shuttingDown, sd, exitCode,
                   closed>>

\* Time passes: the clock reaches the instant t.
Tick(t) ==
    /\ Alive
    /\ t > now
    /\ now' = t
    /\ ev' = NoResponse
    /\ UNCHANGED <<lastReap, ip, httpSessions, nObj, objs, inflight, reapQ,
                   shuttingDown, sd, exitCode, closed>>

\* ------------------------------------------------------ graceful shutdown

\* The for-of over httpSessions.entries(): the entries the iterator has not
\* passed, in insertion order (entries appended meanwhile are visited, deleted
\* ones are not).
Unvisited(m, visited) == SelectSeq(m, LAMBDA e : e.id \notin visited)

\* A teardown that goes to the listener without visiting the sessions.
ShutdownAdvance_skipsLoop(visited, calls) ==
    /\ sd' = [pc |-> "closeListener", server |-> 0, transport |-> 0,
              visited |-> visited, calls |-> calls]
    /\ httpSessions' = MapClear(httpSessions)
    /\ closed' = closed \cup Keys(httpSessions)
    /\ UNCHANGED objs

\* Lines 431-457 from the head of the loop to the next await: either
\* transport.close() of the next entry, or clear() and the listener's close.
ShutdownAdvance(visited, calls) ==
    LET rest == Unvisited(httpSessions, visited) IN
    IF rest /= <<>>
    THEN /\ sd' = [pc |-> "closeTransport", server |-> Head(rest).server,
                   transport |-> Head(rest).transport,
                   visited |-> visited \cup {Head(rest).id}, calls |-> calls]
         /\ objs' = CloseTransport(objs, Head(rest).transport)
         /\ UNCHANGED <<httpSessions, closed>>
    ELSE /\ sd' = [pc |-> "closeListener", server |-> 0, transport |-> 0,
                   visited |-> visited, calls |-> calls]
         /\ httpSessions' = MapClear(httpSessions)
         /\ closed' = closed \cup Keys(httpSessions)
         /\ UNCHANGED objs

\* A handler without the shuttingDown guard: every signal starts the teardown.
Signal_unguarded ==
    /\ exitCode = Null /\ ev = NoResponse
    /\ sd.calls < MaxSignals
    /\ shuttingDown' = TRUE
    /\ ShutdownAdvance({}, sd.calls + 1)
    /\ ev' = NoResponse
    /\ UNCHANGED <<lastReap, ip, now, nObj, inflight, reapQ, exitCode>>

\* SIGINT or SIGTERM invokes shutdown (lines 418-433, 478-480); sd.calls
\* counts the invocations.
Signal ==
    /\ Alive
    /\ sd.calls < MaxSignals
    /\ IF shuttingDown
       THEN /\ sd' = [sd EXCEPT !.calls = @ + 1]
            /\ UNCHANGED <<shuttingDown, objs, httpSessions, closed>>
       ELSE /\ shuttingDown' = TRUE
            /\ ShutdownAdvance({}, sd.calls + 1)
    /\ ev' = NoResponse
    /\ UNCHANGED <<lastReap, ip, now, nObj, inflight, reapQ, exitCode>>

\* A loop in which a rejected transport close ends the teardown.
ShutdownTransportSettles_propagates(rejected) ==
    /\ exitCode = Null /\ ev = NoResponse
    /\ sd.pc = "closeTransport"
    /\ IF rejected
       THEN /\ sd' = [sd EXCEPT !.pc = "failed"]
            /\ exitCode' = 1
            /\ objs' = objs
            /\ ev' = LogLine("Error during shutdown")
       ELSE /\ sd' = [sd EXCEPT !.pc = "closeServer"]
            /\ exitCode' = exitCode
            /\ objs' = CloseServer(objs, sd.server)
            /\ ev' = NoResponse
    /\ UNCHANGED <<lastReap, ip, now, httpSessions, nObj, inflight, reapQ, shuttingDown,
                   closed>>

\* await session.transport.close() settles (lines 432-442): a rejection is
\* caught and logged, and in both cases line 442 calls session.server.close().
ShutdownTransportSettles(rejected) ==
    /\ Alive
    /\ sd.pc = "closeTransport"
    /\ sd' = [sd EXCEPT !.pc = "closeServer"]
    /\ objs' = CloseServer(objs, sd.server)
    /\ ev' = IF rejected THEN LogLine("Error closing transport for session")
             ELSE NoResponse
    /\ UNCHANGED <<lastReap, ip, now, httpSessions, nObj, inflight, reapQ, shuttingDown,
                   exitCode, closed>>

\* A loop that starts over from the first entry after each session.
ShutdownServerSettles_restarts(rejected) ==
    /\ exitCode = Null /\ ev = NoResponse
    /\ sd.pc = "closeServer"
    /\ ShutdownAdvance({}, sd.calls)
    /\ ev' = IF rejected THEN LogLine("Error closing server for session")
             ELSE NoResponse
    /\ UNCHANGED <<lastReap, ip, now, nObj, inflight, reapQ, shuttingDown,
                   exitCode>>

\* await session.server.close() settles (lines 441-449): a rejection is
\* caught and logged, and in both cases the loop goes to the next entry.
ShutdownServerSettles(rejected) ==
    /\ Alive
    /\ sd.pc = "closeServer"
    /\ ShutdownAdvance(sd.visited, sd.calls)
    /\ ev' = IF rejected THEN LogLine("Error closing server for session")
             ELSE NoResponse
    /\ UNCHANGED <<lastReap, ip, now, nObj, inflight, reapQ, shuttingDown, exitCode>>

\* The listener's close callback resolves the promise; in HTTP mode
\* transportInstance and serverInstance are null, so line 471 exits with 0.
ShutdownListenerClosed ==
    /\ Alive
    /\ sd.pc = "closeListener"
    /\ sd' = [sd EXCEPT !.pc = "exited"]
    /\ exitCode' = 0
    /\ ev' = NoResponse
    /\ UNCHANGED <<lastReap, ip, now, httpSessions, nObj, objs, inflight, reapQ, shuttingDown,
                   closed>>

\* A catch block that exits with status 0.
ShutdownThrows_exits0 ==
    /\ exitCode = Null /\ ev = NoResponse
    /\ sd.pc = "closeListener"
    /\ sd' = [sd EXCEPT !.pc = "failed"]
    /\ exitCode' = 0
    /\ ev' = LogLine("Error during shutdown")
    /\ UNCHANGED <<lastReap, ip, now, httpSessions, nObj, objs, inflight, reapQ, shuttingDown,
                   closed>>

\* The promise of lines 454-456 rejects (httpServerInstance.close threw in
\* the executor): the await throws out of the try, and the catch of lines
\* 472-475 logs the error and exits with 1.
ShutdownThrows ==
    /\ Alive
    /\ sd.pc = "closeListener"
    /\ sd' = [sd EXCEPT !.pc = "failed"]
    /\ exitCode' = 1
    /\ ev' = LogLine("Error during shutdown")
    /\ UNCHANGED <<lastReap, ip, now, httpSessions, nObj, objs, inflight, reapQ, shuttingDown,
                   closed>>

\* ------------------------------------------------------------------- next
Next ==
    \/ \E raw \in HeaderValues, body \in Bodies : Post(raw, body)
    \/ \E raw \in HeaderValues : Get(raw)
    \/ \E raw \in HeaderValues : Delete(raw)
    \/ \E h \in Suspended : ConnectResolves(h)
    \/ \E h \in Suspended : ConnectRejects(h)
    \/ \E h \in Suspended : SdkSessionInitialized(h)
    \/ \E h \in Suspended : InitReturns(h)
    \/ \E h \in Suspended, headersSent \in BOOLEAN : InitThrows(h, headersSent)
    \/ \E h \in Suspended : RollbackTransportClosed(h)
    \/ \E h \in Suspended : RollbackTransportCloseRejects(h)
    \/ \E h \in Suspended : RollbackServerSettles(h)
    \/ \E h \in Suspended : SdkSessionClosed(h)
    \/ \E h \in Suspended : DelegatedReturns(h)
    \/ \E h \in Suspended, headersSent \in BOOLEAN : DelegatedThrows(h, headersSent)
    \/ ResponseWritten
    \/ Reap
    \/ \E k \in Objs, rejected \in BOOLEAN : ReapServerClose(k, rejected)
    \/ \E t \in Instants : Tick(t)
    \/ Signal
    \/ \E rejected \in BOOLEAN : ShutdownTransportSettles(rejected)
    \/ \E rejected \in BOOLEAN : ShutdownServerSettles(rejected)
    \/ ShutdownListenerClosed
    \/ ShutdownThrows

Spec == Init /\ [][Next]_vars

\* ------------------------------------------------- Origin validation
\* The middleware of lines 116-151, in front of the three handlers.  A header
\* value is absent or a string; a string is the sequence of its parts, so
\* 'http://localhost:3001' is <<"http://localhost", ":", "3001">>.

AllowedOrigins ==
    {"http://localhost", "http://127.0.0.1", "http://[::1]",
     "https://localhost", "https://127.0.0.1", "https://[::1]"}
Ports == {"3001"}
\* What follows the allowed origin in the headers tried, and the allowed
\* origins they are tried after.
OriginSuffixes ==
    {<<":", "3001">>, <<":">>, <<":", "evil">>, <<":", "3001", ".evil.com">>,
     <<".evil.com">>}
SuffixedOrigins == {"http://localhost", "https://[::1]"}
Origins ==
    {<<"absent">>, <<"str", <<>>>>, <<"str", <<"http://malicious-site.com">>>>}
        \cup {<<"str", <<a>>>> : a \in AllowedOrigins}
        \cup {<<"str", <<a>> \o t>> : a \in SuffixedOrigins, t \in OriginSuffixes}

\* String.prototype.startsWith
StartsWith(str, prefix) ==
    Len(str) >= Len(prefix) /\ SubSeq(str, 1, Len(prefix)) = prefix

\* if (!origin): undefined and '' are falsy.
OriginTruthy(origin) == origin[1] = "str" /\ origin[2] /= <<>>

\* A comparison that accepts the allowed origins only as they are.
isAllowed_exact(origin) ==
    \E allowed \in AllowedOrigins : origin[2] = <<allowed>>

\* allowedOrigins.some(...) of lines 134-137.
isAllowed(origin) ==
    \E allowed \in AllowedOrigins :
        origin[2] = <<allowed>> \/ StartsWith(origin[2], <<allowed, ":">>)

\* res.status(403).json({error: 'Forbidden', message: ...})
Forbidden == [status |-> 403, json |-> TRUE, code |-> 0, by |-> "origin"]

\* app.use((req, res, next) => ...): the request goes on to next, or is
\* answered here.
OriginMiddleware(origin, next) ==
    IF ~OriginTruthy(origin)
    THEN next
    ELSE IF ~isAllowed(origin)
    THEN /\ Alive
         /\ ev' = Forbidden
         /\ UNCHANGED <<lastReap, ip, now, httpSessions, nObj, objs, inflight,
                        reapQ, shuttingDown, sd, exitCode, closed>>
    ELSE next

\* The router with the middleware in front: requests carrying any Origin, and
\* the transport's steps on the requests that got through.
NextOrigin ==
    \/ \E origin \in Origins, raw \in HeaderValues, body \in Bodies :
        OriginMiddleware(origin, Post(raw, body))
    \/ \E origin \in Origins, raw \in HeaderValues :
        OriginMiddleware(origin, Get(raw))
    \/ \E origin \in Origins, raw \in HeaderValues :
        OriginMiddleware(origin, Delete(raw))
    \/ \E h \in Suspended : ConnectResolves(h)
    \/ \E h \in Suspended : SdkSessionInitialized(h)
    \/ \E h \in Suspended : InitReturns(h)
    \/ \E h \in Suspended : SdkSessionClosed(h)
    \/ \E h \in Suspended : DelegatedReturns(h)
    \/ ResponseWritten

SpecOrigin == Init /\ [][NextOrigin]_vars

\* ------------------------------------------- ipAddressController.get
\* One call of get (ipaddress.controller.ts): the service is the environment,
\* each of its calls resolves or rejects with some error.

FALLBACK_MESSAGES == {"SSL unavailable", "Permission denied", "Access denied"}
ErrorMessages ==
    {<<"SSL unavailable">>, <<"Permission denied">>,
     <<"IP API error: ", "Access denied", " for this key">>,
     <<"ssl unavailable">>, <<"Request timed out">>}
Errors == {[mcp |-> m, message |-> s] : m \in BOOLEAN, s \in ErrorMessages}
ArgsUseHttps == {"undefined", "true", "false"}

\* String.prototype.includes
Includes(message, part) == \E i \in 1 .. Len(message) : message[i] = part

\* A test that falls back on every failure of an HTTPS call.
ShouldFallback_anyError(useHttps, error) == useHttps

\* The condition of lines 118-124.
ShouldFallback(useHttps, error) ==
    /\ useHttps
    /\ error.mcp
    /\ \E part \in FALLBACK_MESSAGES : Includes(error.message, part)

\* The calls get can be given: args.useHttps, and whether the process runs
\* under test.
IpInputs ==
    {[IpIdle EXCEPT !.pc = "called", !.argUseHttps = a, !.isTestEnvironment = t] :
        a \in ArgsUseHttps, t \in BOOLEAN}

InitIp ==
    /\ now = 0
    /\ httpSessions = <<>>
    /\ nObj = 0
    /\ objs = [k \in Objs |-> NoObj]
    /\ inflight = EmptyBag
    /\ ev = NoResponse
    /\ reapQ = {}
    /\ shuttingDown = FALSE
    /\ sd = SdIdle
    /\ exitCode = Null
    /\ closed = {}
    /\ lastReap = 0
    /\ ip \in IpInputs

\* Lines 60-114: the defaults (useHttps ?? true), the override under test,
\* and the first call of the service.
IpCallService ==
    /\ ip.pc = "called"
    /\ LET useHttps == IF ip.isTestEnvironment THEN FALSE
                        ELSE ip.argUseHttps /= "false" IN
        ip' = [ip EXCEPT !.pc = "first", !.useHttps = useHttps,
                         !.calls = <<useHttps>>]
    /\ UNCHANGED <<now, httpSessions, nObj, objs, inflight, ev, reapQ,
                   shuttingDown, sd, exitCode, closed, lastReap>>

\* The awaited call (line 114 or 127) resolves: lines 138-146 return.
IpServiceResolves ==
    /\ ip.pc \in {"first", "retry"}
    /\ ip' = [ip EXCEPT !.pc = "returned"]
    /\ UNCHANGED <<now, httpSessions, nObj, objs, inflight, ev, reapQ,
                   shuttingDown, sd, exitCode, closed, lastReap>>

\* The first call rejects (lines 116-136): the service is called again with
\* useHttps false, or the error is thrown on to the outer catch.
IpFirstRejects(error) ==
    /\ ip.pc = "first"
    /\ ip' = IF ShouldFallback(ip.useHttps, error)
             THEN [ip EXCEPT !.pc = "retry", !.caught = error,
                             !.calls = Append(@, FALSE)]
             ELSE [ip EXCEPT !.pc = "thrown", !.caught = error, !.error = error]
    /\ UNCHANGED <<now, httpSessions, nObj, objs, inflight, ev, reapQ,
                   shuttingDown, sd, exitCode, closed, lastReap>>

\* The second call (line 127) rejects: it is inside the catch block, so the
\* error goes to the outer catch (lines 147-158) and get throws.
IpRetryRejects(error) ==
    /\ ip.pc = "retry"
    /\ ip' = [ip EXCEPT !.pc = "thrown", !.error = error]
    /\ UNCHANGED <<now, httpSessions, nObj, objs, inflight, ev, reapQ,
                   shuttingDown, sd, exitCode, closed, lastReap>>

NextIp ==
    \/ IpCallService
    \/ IpServiceResolves
    \/ \E error \in Errors : IpFirstRejects(error)
    \/ \E error \in Errors : IpRetryRejects(error)

SpecIp == InitIp /\ [][NextIp]_vars

\* --------------------------------------------------- teardown, scheduled
\* A step of the teardown past one of its awaits.
ShutdownStep ==
    \/ \E rejected \in BOOLEAN : ShutdownTransportSettles(rejected)
    \/ \E rejected \in BOOLEAN : ShutdownServerSettles(rejected)
    \/ ShutdownListenerClosed
    \/ ShutdownThrows

\* The teardown beside the requests that create, use and terminate sessions,
\* with the clock standing still.
NextTeardown ==
    \/ \E raw \in HeaderValues, body \in Bodies : Post(raw, body)
    \/ \E raw \in HeaderValues : Delete(raw)
    \/ \E h \in Suspended : ConnectResolves(h)
    \/ \E h \in Suspended : SdkSessionInitialized(h)
    \/ \E h \in Suspended : InitReturns(h)
    \/ \E h \in Suspended : SdkSessionClosed(h)
    \/ \E h \in Suspended : DelegatedReturns(h)
    \/ ResponseWritten
    \/ Signal
    \/ \E rejected \in BOOLEAN : ShutdownTransportSettles(rejected)
    \/ \E rejected \in BOOLEAN : ShutdownServerSettles(rejected)
    \/ ShutdownListenerClosed
    \/ ShutdownThrows

\* The server under the condition that every close the teardown awaits and
\* the listener's close settle, and that a response being written is written:
\* the event loop then resumes the teardown after each await.
SpecFair ==
    /\ Init
    /\ [][NextTeardown]_vars
    /\ WF_vars(ResponseWritten)
    /\ SF_vars(ShutdownStep)

\* ------------------------------------------------ the reaper on its timer

\* The requests stop after MaxActive minutes, and the clock is followed up to
\* MaxMinutes minutes.
MaxActive == 6
MaxMinutes == 46

\* A timer that comes a minute late each time.
ReapTimerDue_late == now - lastReap >= REAP_INTERVAL_MS + MINUTE_MS

\* setInterval(..., REAP_INTERVAL_MS) (lines 334, 357): the callback is due
\* REAP_INTERVAL_MS after the timer was set or after it last ran.
ReapTimerDue == now - lastReap >= REAP_INTERVAL_MS

\* The timer fires on time and the callback runs.
TimerFires ==
    /\ ReapTimerDue
    /\ ReapCallback
    /\ lastReap' = now

\* A minute passes; the clock does not pass a timer that is due.
TickMinute ==
    /\ Alive
    /\ ~ReapTimerDue
    /\ now < MaxMinutes * MINUTE_MS
    /\ now' = now + MINUTE_MS
    /\ ev' = NoResponse
    /\ UNCHANGED <<lastReap, ip, httpSessions, nObj, objs, inflight, reapQ,
                   shuttingDown, sd, exitCode, closed>>

\* The POST handler and the steps of its handshake, the timer and the clock.
NextTimer ==
    \/ \E raw \in HeaderValues : \E body \in Bodies :
        /\ now <= MaxActive * MINUTE_MS
        /\ Post(raw, body)
    \/ \E h \in Suspended : ConnectResolves(h)
    \/ \E h \in Suspended : SdkSessionInitialized(h)
    \/ \E h \in Suspended : InitReturns(h)
    \/ \E h \in Suspended : DelegatedReturns(h)
    \/ ResponseWritten
    \/ TimerFires
    \/ \E k \in reapQ : \E rejected \in BOOLEAN : ReapServerClose(k, rejected)
    \/ TickMinute

SpecTimer == Init /\ [][NextTimer]_vars

\* ================================================================ claims

\* The session ids the transports have generated and registered.
Issued == {objs[k].sid : k \in Objs} \ {Null}
\* The pair whose transport generated the session id s.
PairOf(s) == CHOOSE k \in Objs : objs[k].sid = s
\* The requests of the three methods that carry the header raw.
Request(raw) ==
    \/ \E body \in Bodies : Post(raw, body)
    \/ Get(raw)
    \/ Delete(raw)

C2_UnknownSession ==
    [][\A raw \in HeaderValues :
        (Truthy(getSessionId(raw)) /\ ~MapHas(httpSessions, getSessionId(raw))
            /\ Request(raw))
        => /\ ev'.status = 404
           /\ ev'.by = "router"
           /\ httpSessions' = httpSessions
           /\ inflight' = inflight]_vars

\* A 404 has just been sent while the map holds a session.
C2_Witness == ev.status = 404 /\ ev.by = "router" /\ httpSessions /= <<>>

\* C3: a request without a session id that is not an initialize POST (a POST
\* with another body, a GET, a DELETE) is answered with 400, and no pair is
\* constructed, no handler suspended and no entry stored for it.
C3_MissingHeader ==
    [][\A raw \in HeaderValues :
        (~Truthy(getSessionId(raw))
            /\ (Post(raw, "rpc") \/ Get(raw) \/ Delete(raw)))
        => /\ ev'.status = 400
           /\ ev'.by = "router"
           /\ nObj' = nObj
           /\ objs' = objs
           /\ inflight' = inflight
           /\ httpSessions' = httpSessions]_vars

\* A 400 has just been sent while a session exists.
C3_Witness == ev.status = 400 /\ ev.by = "router" /\ httpSessions /= <<>>

\* C4: every entry is bound to the server and transport constructed for the
\* handshake that generated its id, a request bearing that id is delegated to
\* that transport, and while the id stays in the map its entry is never
\* replaced by another binding.
C4_Bound ==
    /\ \A i \in 1 .. Len(httpSessions) :
        /\ objs[httpSessions[i].transport].sid = httpSessions[i].id
        /\ httpSessions[i].server = httpSessions[i].transport
    /\ \A h \in Suspended :
        h.pc \in {"delegated", "terminating"} => objs[h.obj].sid = h.sid
C4_IdentityPreserved ==
    /\ []C4_Bound
    /\ [][\A s \in Keys(httpSessions) \cap Keys(httpSessions') :
            /\ MapGet(httpSessions', s).transport = MapGet(httpSessions, s).transport
            /\ MapGet(httpSessions', s).server = MapGet(httpSessions, s).server]_vars

\* A request is delegated to the transport of a session whose handshake
\* completed and which is still in the map, while another session exists.
C4_Witness ==
    \E h \in Suspended :
        /\ h.pc = "delegated"
        /\ MapHas(httpSessions, h.sid)
        /\ objs[h.obj].hs = "ok"
        /\ Len(httpSessions) = 2

\* C5 (as stated): a POST, GET or DELETE bearing the id of a session in the
\* map sets that session's lastActivity to the current time before it is
\* delegated.
C5_TouchOnEveryRequest ==
    [][\A raw \in HeaderValues :
        (MapHas(httpSessions, getSessionId(raw)) /\ Request(raw))
        => /\ MapHas(httpSessions', getSessionId(raw))
           /\ MapGet(httpSessions', getSessionId(raw)).lastActivity = now]_vars

\* C6: when a sweep of the reaper has run, no entry of the map is idle for
\* more than the TTL, the evicted ids are closed, and a request bearing a
\* closed id is answered with 404.
C6_ReapEvicts ==
    /\ [][Reap =>
            /\ \A i \in 1 .. Len(httpSessions') :
                now - httpSessions'[i].lastActivity <= SESSION_TTL_MS
            /\ (Keys(httpSessions) \ Keys(httpSessions')) \subseteq closed']_vars
    /\ [][\A raw \in HeaderValues :
            (getSessionId(raw) \in closed /\ Request(raw))
            => ev'.status = 404 /\ ev'.by = "router"]_vars

\* A sweep has evicted one session and kept another, and a 404 was just sent.
C6_Witness == reapQ /= {} /\ httpSessions /= <<>> /\ ev.status = 404

\* C7: a sweep removes exactly the sessions idle for strictly more than the
\* TTL; a session idle for at most the TTL is in the map, unchanged, after it.
C7_StrictTtl ==
    [][Reap =>
        \A i \in 1 .. Len(httpSessions) :
            LET e == httpSessions[i] IN
            /\ now - e.lastActivity <= SESSION_TTL_MS
                => MapHas(httpSessions', e.id) /\ MapGet(httpSessions', e.id) = e
            /\ now - e.lastActivity > SESSION_TTL_MS
                => ~MapHas(httpSessions', e.id)]_vars

\* A sweep has evicted a session, and a session idle for exactly the TTL at
\* that sweep is still in the map.
C7_Witness ==
    /\ reapQ /= {}
    /\ \E i \in 1 .. Len(httpSessions) :
        now - httpSessions[i].lastActivity = SESSION_TTL_MS

\* C8 (as stated): when the handler of an initialize request ends in the outer
\* catch because connect or the delegated handleRequest threw, the map holds
\* no entry of the session being created and the new transport and the new
\* server have both been closed.
C8_RollbackClosesBoth ==
    [][\A h \in Suspended :
        (ConnectRejects(h) \/ RollbackTransportCloseRejects(h)
            \/ RollbackServerSettles(h))
        => /\ objs'[h.obj].tClose >= 1
           /\ objs'[h.obj].sClose >= 1
           /\ h.initializedSessionId /= Null
                => ~MapHas(httpSessions', h.initializedSessionId)]_vars

\* C9 (as stated): when the delegated handleRequest of a session that is in
\* the map throws, the caller is sent an error response and the session stays
\* in the map, bound to the same transport and server.
C9_AsStated ==
    [][\A h \in Suspended, sent \in BOOLEAN :
        (MapHas(httpSessions, h.sid) /\ DelegatedThrows(h, sent))
        => /\ ev'.status = 500
           /\ MapHas(httpSessions', h.sid)
           /\ MapGet(httpSessions', h.sid) = MapGet(httpSessions, h.sid)]_vars

\* C9 (amended): when the delegated handleRequest of a session that is in the
\* map throws, the caller is sent a 500 error response unless the response
\* headers were already sent (then the router writes nothing), and the session
\* stays in the map, bound to the same transport and server.
C9_SessionSurvivesThrow ==
    [][\A h \in Suspended, sent \in BOOLEAN :
        (MapHas(httpSessions, h.sid) /\ DelegatedThrows(h, sent))
        => /\ ~sent => ev'.status = 500 /\ ev'.by = "router"
           /\ sent => ev' = NoResponse
           /\ MapHas(httpSessions', h.sid)
           /\ MapGet(httpSessions', h.sid) = MapGet(httpSessions, h.sid)
           /\ MapGet(httpSessions', h.sid).transport = h.obj]_vars

\* The GET or DELETE of the only session ever created has thrown, a 500 was
\* sent, and the session is in the map.
C9_Witness ==
    /\ ev = PlainInternalError
    /\ nObj = 1
    /\ Len(httpSessions) = 1
    /\ inflight = EmptyBag

\* C10: the transport terminating a session on DELETE removes it from the
\* map; an id that has left the map never returns to it; and a later DELETE
\* bearing that id is answered with the 404 response, suspends no handler
\* (nothing is thrown) and leaves the map as it was.
C10_DeleteTwice ==
    /\ [][\A h \in Suspended :
            SdkSessionClosed(h) => ~MapHas(httpSessions', h.sid)]_vars
    /\ [][\A s \in Issued :
            ~MapHas(httpSessions, s) => ~MapHas(httpSessions', s)]_vars
    /\ [][\A raw \in HeaderValues :
            (getSessionId(raw) \in Issued
                /\ ~MapHas(httpSessions, getSessionId(raw)) /\ Delete(raw))
            => /\ ev' = PlainNotFound
               /\ httpSessions' = httpSessions
               /\ inflight' = inflight]_vars

\* A DELETE has terminated a session and completed (no sweep and no shutdown
\* can have removed it), and a request for a missing session got the 404.
C10_Witness ==
    /\ ev = PlainNotFound
    /\ closed /= {}
    /\ now = 0
    /\ ~shuttingDown
    /\ inflight = EmptyBag

\* The stage of the teardown: not started, closing the sessions, awaiting the
\* listener's close, exited.
SdRank(pc) ==
    CASE pc = "running" -> 0
      [] pc \in {"closeTransport", "closeServer"} -> 1
      [] pc = "closeListener" -> 2
      [] OTHER -> 3

\* C11: an invocation of the signal handler while the teardown has already
\* started returns without closing anything and without moving the teardown;
\* the teardown runs once: the flag is never reset, the stages (closing the
\* sessions, closing the listener, exiting) are never gone through again, the
\* loop passes each session once, and the exit status is set once.
C11_TeardownOnce ==
    /\ [][(shuttingDown /\ Signal)
            => /\ sd'.pc = sd.pc
               /\ sd'.visited = sd.visited
               /\ UNCHANGED <<httpSessions, objs, closed, reapQ, inflight,
                              shuttingDown, exitCode>>]_vars
    /\ [][shuttingDown => shuttingDown']_vars
    /\ [][SdRank(sd'.pc) >= SdRank(sd.pc)]_vars
    /\ [][sd'.visited /= sd.visited
            => /\ sd.visited \subseteq sd'.visited
               /\ Cardinality(sd'.visited) = Cardinality(sd.visited) + 1]_vars
    /\ [][exitCode /= Null => exitCode' = exitCode]_vars

\* The handler was invoked twice and the process has exited with 0 after the
\* teardown closed the transport and the server of a session exactly once.
C11_Witness ==
    /\ sd.calls = 2
    /\ exitCode = 0
    /\ sd.visited /= {}
    /\ \A k \in Objs :
        objs[k].sid \in sd.visited => objs[k].tClose = 1 /\ objs[k].sClose = 1

\* C12 (as stated): when the shutdown has made the process exit, every
\* session that was registered in the map has had a close of its transport
\* and a close of its server attempted.
C12_AllClosedAtExit ==
    exitCode = 0
        => \A k \in Objs :
            objs[k].sid /= Null => objs[k].tClose >= 1 /\ objs[k].sClose >= 1

\* C13: the teardown calls clear() and the listener's close only when every
\* entry of the map has been passed by the loop and has had its transport's
\* and its server's close called; that step empties the map; the process
\* exits with 0 only by the listener's close callback, after that step.
C13_ShutdownOrder ==
    /\ [][(SdRank(sd.pc) < 2 /\ sd'.pc = "closeListener")
            => /\ \A i \in 1 .. Len(httpSessions) :
                    /\ httpSessions[i].id \in sd'.visited
                    /\ objs'[httpSessions[i].transport].tClose >= 1
                    /\ objs'[httpSessions[i].server].sClose >= 1
               /\ httpSessions' = <<>>
               /\ exitCode' = Null]_vars
    /\ [][(exitCode = Null /\ exitCode' = 0)
            => sd.pc = "closeListener" /\ ShutdownListenerClosed]_vars
    /\ [](SdRank(sd.pc) < 2 => exitCode = Null)

\* The teardown has closed two sessions one after the other, emptied the map,
\* closed the listener and exited with 0.
C13_Witness ==
    /\ exitCode = 0
    /\ Cardinality(sd.visited) = 2
    /\ httpSessions = <<>>

\* C14: in the teardown a rejected transport close is logged and line 442
\* still calls the server close of that session; a rejected server close is
\* logged and the loop goes on to the next entry of the map, or to clear() and
\* the listener's close when none is left; neither ends the process, and the
\* process exits with 1 only from the wait for the listener.
C14_CloseFailuresContained ==
    /\ [][ShutdownTransportSettles(TRUE)
            => /\ sd'.pc = "closeServer"
               /\ sd'.server = sd.server
               /\ objs'[sd.server].sClose = CountUp(objs[sd.server].sClose)
               /\ httpSessions' = httpSessions
               /\ exitCode' = Null]_vars
    /\ [][ShutdownServerSettles(TRUE)
            => /\ exitCode' = Null
               /\ LET rest == Unvisited(httpSessions, sd.visited) IN
                    IF rest /= <<>>
                    THEN /\ sd'.pc = "closeTransport"
                         /\ sd'.transport = Head(rest).transport
                         /\ objs'[Head(rest).transport].tClose
                                = CountUp(objs[Head(rest).transport].tClose)
                    ELSE /\ sd'.pc = "closeListener"
                         /\ httpSessions' = <<>>]_vars
    /\ [][(exitCode = Null /\ exitCode' = 1) => sd.pc = "closeListener"]_vars

\* The transport close of the first of two sessions has just been rejected
\* and logged; the server close of that session has been called and the
\* other session is still to be closed.
C14_Witness ==
    /\ ev = LogLine("Error closing transport for session")
    /\ sd.pc = "closeServer"
    /\ objs[sd.server].sClose = 1
    /\ Len(Unvisited(httpSessions, sd.visited)) = 1
    /\ exitCode = Null

\* C15: a sweep deletes every expired entry and calls its transport's close,
\* leaving its server's close to the promise chain; when the transport close
\* of a reaped session is rejected, the rejection is logged, the server close
\* of that session is still called, the session stays out of the map, and the
\* chains of the other reaped sessions are left as they were.
C15_ReapFailuresContained ==
    /\ [][Reap
            => \A i \in 1 .. Len(httpSessions) :
                Expired(httpSessions[i], now)
                => /\ ~MapHas(httpSessions', httpSessions[i].id)
                   /\ objs'[httpSessions[i].transport].tClose
                        = CountUp(objs[httpSessions[i].transport].tClose)
                   /\ httpSessions[i].server \in reapQ']_vars
    /\ [][\A k \in Objs :
            ReapServerClose(k, TRUE)
            => /\ objs'[k].sClose = CountUp(objs[k].sClose)
               /\ ~MapHas(httpSessions', objs[k].sid)
               /\ httpSessions' = httpSessions
               /\ reapQ' = reapQ \ {k}
               /\ exitCode' = Null]_vars

\* One sweep has evicted two sessions; the transport close of one has just
\* been rejected and logged, its server close has been called, and the chain
\* of the other is still pending.
C15_Witness ==
    /\ ev = LogLine("Error closing transport for reaped session")
    /\ nObj = 2
    /\ httpSessions = <<>>
    /\ \A k \in Objs : objs[k].hs = "ok" /\ objs[k].tClose = 1
    /\ \E k \in Objs :
        /\ reapQ = {k}
        /\ objs[k].sClose = 0
        /\ \A j \in Objs \ {k} : objs[j].sClose = 1
    /\ ~shuttingDown

\* C16: when the await of the listener's close throws out of the try of the
\* teardown, the error is logged and the process exits with status 1; a
\* teardown that failed has exit status 1, and the status never becomes 0
\* afterwards.
C16_ShutdownErrorExits1 ==
    /\ [][ShutdownThrows
            => exitCode' = 1 /\ ev' = LogLine("Error during shutdown")]_vars
    /\ [](sd.pc = "failed" => exitCode = 1)
    /\ [][exitCode = 1 => exitCode' = 1]_vars

\* The teardown closed a session, then threw while waiting for the listener:
\* the error has been logged and the exit status is 1.
C16_Witness ==
    /\ exitCode = 1
    /\ sd.pc = "failed"
    /\ sd.visited /= {}
    /\ ev = LogLine("Error during shutdown")

\* C17 (as stated): every error response the router sends on /mcp, for POST,
\* GET and DELETE alike, is a JSON-RPC error envelope with a numeric code.
C17_JsonEnvelope == ev.by = "router" => ev.json /\ ev.code /= 0

\* C18: a POST, GET or DELETE bearing the id X, found or not, and the later
\* steps of its handler (the transport returning, throwing, or terminating
\* the session) leave every entry other than X's as it was; a request that
\* ends in a routing error leaves the whole map as it was.
C18_OtherSessionsUntouched ==
    /\ [][\A raw \in HeaderValues :
            Request(raw)
            => /\ MapDelete(httpSessions', getSessionId(raw))
                    = MapDelete(httpSessions, getSessionId(raw))
               /\ ev'.by = "router" => httpSessions' = httpSessions]_vars
    /\ [][\A h \in Suspended :
            (/\ h.pc \in {"delegated", "terminating"}
             /\ \/ SdkSessionClosed(h)
                \/ DelegatedReturns(h)
                \/ \E sent \in BOOLEAN : DelegatedThrows(h, sent))
            => MapDelete(httpSessions', h.sid) = MapDelete(httpSessions, h.sid)]_vars

\* A POST bearing the id of one of two sessions has been accepted a minute
\* after both were registered: its session is stamped with the current time
\* and the other still has the time of its registration.
C18_Witness ==
    \E h \in Suspended :
        /\ h.pc = "delegated"
        /\ h.method = "POST"
        /\ Len(httpSessions) = 2
        /\ now = MINUTE_MS
        /\ MapGet(httpSessions, h.sid).lastActivity = now
        /\ \E i \in 1 .. 2 :
            httpSessions[i].id /= h.sid /\ httpSessions[i].lastActivity = 0

\* C19: no two entries of the map have the same id, the same transport or the
\* same server; the callback of a handshake appends one entry and leaves the
\* entries that were there as they were.
C19_Unique ==
    \A i, j \in 1 .. Len(httpSessions) :
        i /= j
        => /\ httpSessions[i].id /= httpSessions[j].id
           /\ httpSessions[i].transport /= httpSessions[j].transport
           /\ httpSessions[i].server /= httpSessions[j].server
C19_NoSharing ==
    /\ []C19_Unique
    /\ [][\A h \in Suspended :
            SdkSessionInitialized(h)
            => /\ Len(httpSessions') = Len(httpSessions) + 1
               /\ SubSeq(httpSessions', 1, Len(httpSessions)) = httpSessions]_vars

\* Two initialize requests are being handled at once; each has registered
\* its session and the map holds both.
C19_Witness ==
    /\ Len(httpSessions) = 2
    /\ Cardinality({h \in Suspended :
            h.pc = "init" /\ h.initializedSessionId /= Null}) = 2

OriginRequest(origin, raw) == OriginMiddleware(origin, Request(raw))

\* The header is an allowed origin, or one followed by ':' and a port.
HostAndPort(origin) ==
    \E allowed \in AllowedOrigins :
        \/ origin[2] = <<allowed>>
        \/ \E port \in Ports : origin[2] = <<allowed, ":", port>>

\* The header is an allowed origin, or begins with one followed by ':'.
HostAndColon(origin) ==
    \E allowed \in AllowedOrigins :
        \/ origin[2] = <<allowed>>
        \/ Len(origin[2]) >= 2 /\ origin[2][1] = allowed /\ origin[2][2] = ":"

\* C22 (as stated): a request whose Origin header is present and is neither
\* an allowed origin nor one followed by ':' and a port is answered with 403
\* and creates, touches and terminates nothing; a request without the header
\* is never answered with 403.
C22_AsStated ==
    [][\A origin \in Origins, raw \in HeaderValues :
        OriginRequest(origin, raw)
        => IF origin[1] = "str" /\ ~HostAndPort(origin)
           THEN /\ ev' = Forbidden
                /\ UNCHANGED <<httpSessions, nObj, objs, inflight, closed>>
           ELSE origin[1] = "absent" => ev'.status /= 403]_vars

\* C22 (amended): a request whose Origin header is present, not empty, and
\* neither an allowed origin nor a string that begins with one followed by
\* ':' is answered with 403 and creates, touches and terminates nothing;
\* every other request (no header, an empty one, an allowed origin, or one
\* followed by ':' and anything) is routed and never answered with 403.
C22_OriginGate ==
    [][\A origin \in Origins, raw \in HeaderValues :
        OriginRequest(origin, raw)
        => IF origin[1] = "str" /\ origin[2] /= <<>> /\ ~HostAndColon(origin)
           THEN /\ ev' = Forbidden
                /\ UNCHANGED <<httpSessions, nObj, objs, inflight, closed>>
           ELSE ev'.status /= 403 /\ Request(raw)]_vars

\* A request has just been rejected with 403 while a session is in the map
\* and a handler is suspended; both are as they were.
C22_Witness ==
    /\ ev = Forbidden
    /\ Len(httpSessions) = 1
    /\ \E h \in Suspended : h.pc = "delegated" /\ h.sid = httpSessions[1].id

\* The error is an McpError whose message contains one of the three texts.
FallbackError(error) ==
    /\ error.mcp
    /\ \/ Includes(error.message, "SSL unavailable")
       \/ Includes(error.message, "Permission denied")
       \/ Includes(error.message, "Access denied")

\* C23: the service is called at most twice per get; a second call is made
\* only with useHttps false, after a first call with useHttps true failed with
\* an McpError containing one of the three texts; every other failure of the
\* first call, and every failure of the second, makes get throw that error
\* without another call; and once get has returned or thrown nothing more
\* happens.
C23_SingleFallback ==
    /\ [](Len(ip.calls) <= 2)
    /\ [](Len(ip.calls) = 2
            => ip.calls = <<TRUE, FALSE>> /\ FallbackError(ip.caught))
    /\ [][\A error \in Errors :
            IpFirstRejects(error)
            => IF ip.useHttps /\ FallbackError(error)
               THEN ip'.pc = "retry" /\ ip'.calls = <<TRUE, FALSE>>
               ELSE /\ ip'.pc = "thrown"
                    /\ ip'.error = error
                    /\ ip'.calls = ip.calls]_vars
    /\ [][\A error \in Errors :
            IpRetryRejects(error)
            => /\ ip'.pc = "thrown"
               /\ ip'.error = error
               /\ ip'.calls = ip.calls]_vars
    /\ [][ip.pc \in {"returned", "thrown"} => ip' = ip]_vars

\* The HTTPS call failed with 'Permission denied', the HTTP retry failed with
\* 'SSL unavailable', and get has thrown after those two calls.
C23_Witness ==
    /\ ip.pc = "thrown"
    /\ ip.calls = <<TRUE, FALSE>>
    /\ ip.caught = [mcp |-> TRUE, message |-> <<"Permission denied">>]
    /\ ip.error = [mcp |-> TRUE, message |-> <<"SSL unavailable">>]

C25_NoCreationWithSessionId ==
    [][\A raw \in HeaderValues : \A body \in Bodies :
        (Truthy(getSessionId(raw)) /\ Post(raw, body)) =>
            /\ nObj' = nObj
            /\ objs' = objs
            /\ Len(httpSessions') = Len(httpSessions)
            /\ Keys(httpSessions') = Keys(httpSessions)
            /\ IF MapHas(httpSessions, getSessionId(raw))
               THEN /\ ev' = NoResponse
                    /\ inflight' = Suspend(inflight,
                           Handler("delegated", "POST", getSessionId(raw),
                               MapGet(httpSessions, getSessionId(raw)).transport))
               ELSE /\ ev' = PostNotFound
                    /\ inflight' = inflight]_vars

\* A POST naming the only session is suspended on that session's transport
\* while a second pair could still have been constructed, and a POST with an
\* initialize body and that header can be served next.
C25_Witness ==
    /\ nObj = 1
    /\ nObj < MaxCreate
    /\ Len(httpSessions) = 1
    /\ \E h \in Suspended :
        /\ h.pc = "delegated"
        /\ h.method = "POST"
        /\ h.sid = httpSessions[1].id
        /\ h.obj = httpSessions[1].transport
    /\ ENABLED Post(<<"str", httpSessions[1].id>>, "initialize")

\* C26 (as stated): a POST, GET or DELETE is never suspended on a transport
\* whose close() has been called, whether by the reaper, by the termination
\* callback, by the rollback of a failed initialization or by the teardown.
C26_NoDelegationAfterClose ==
    [][\A raw \in HeaderValues :
        (MapHas(httpSessions, getSessionId(raw)) /\ Request(raw)) =>
            objs[MapGet(httpSessions, getSessionId(raw)).transport].tClose = 0]_vars

\* C27 (as stated): once the teardown has started no step adds an entry to
\* the map, and from clear() until the process exits the map is empty.
C27_NoRegistrationDuringShutdown ==
    /\ [][shuttingDown => Keys(httpSessions') \subseteq Keys(httpSessions)]_vars
    /\ [](SdRank(sd.pc) >= 2 => httpSessions = <<>>)

\* C28 (as stated): a server/transport pair constructed for an initialize
\* request, once the handler that constructed it has finished, has been
\* registered in the map or has had a close called: no pair is left behind
\* unregistered and unclosed.  (A finished handler holds the only reference
\* to an unregistered pair, so such a pair can never be closed later.)
C28_PairRegisteredOrClosed ==
    \A k \in 1 .. nObj :
        \/ \E h \in Suspended : h.obj = k
        \/ objs[k].sid /= Null
        \/ objs[k].tClose >= 1
        \/ objs[k].sClose >= 1

\* C29 (as stated): whatever the interleaving of the termination callback,
\* the reaper, the rollback of a failed initialization and the teardown, the
\* close() of a session's server is called at most once.
C29_ServerClosedOnce ==
    \A k \in Objs : objs[k].sClose <= 1

\* C30: with the reap timer firing every REAP_INTERVAL_MS, no session is in
\* the map later than SESSION_TTL_MS + REAP_INTERVAL_MS after its
\* lastActivity: the callback that runs then, at the latest, removes it.
\* Every run of the callback leaves only sessions idle for at most
\* SESSION_TTL_MS, and a session is idle for less than
\* SESSION_TTL_MS + REAP_INTERVAL_MS whenever no callback is due.
C30_ReapedWithinTtlPlusInterval ==
    /\ [](\A i \in 1 .. Len(httpSessions) :
            now - httpSessions[i].lastActivity
                <= SESSION_TTL_MS + REAP_INTERVAL_MS)
    /\ [](~ReapTimerDue =>
            \A i \in 1 .. Len(httpSessions) :
                now - httpSessions[i].lastActivity
                    < SESSION_TTL_MS + REAP_INTERVAL_MS)
    /\ [][TimerFires =>
            \A i \in 1 .. Len(httpSessions') :
                now - httpSessions'[i].lastActivity <= SESSION_TTL_MS]_vars

\* A session last touched at the very instant of a run of the callback is
\* still in the map SESSION_TTL_MS + REAP_INTERVAL_MS later: the callback is
\* due, and running it removes the session.
C30_Witness ==
    /\ Len(httpSessions) >= 1
    /\ now - httpSessions[1].lastActivity = SESSION_TTL_MS + REAP_INTERVAL_MS
    /\ httpSessions[1].lastActivity > 0
    /\ ReapTimerDue
    /\ ENABLED (TimerFires /\ ~MapHas(httpSessions', httpSessions[1].id))
====
